---- MODULE Spec2Model ----
(***************************************************************************)
(* Model of the Uniswap-V2 router decoders of                              *)
(* src/components/decoder/uniswap.tsx: the swap, add-liquidity and         *)
(* remove-liquidity decoders working on one trace tree and one shared      *)
(* decoder state (the consumed paths and the requested token metadata).    *)
(*                                                                         *)
(* A driver offers any node of the trace to any decoder, in any order,     *)
(* any number of times.  One action models one whole decode call.  A call  *)
(* that throws keeps the mutations it made before the throw, as in         *)
(* JavaScript.                                                             *)
(***************************************************************************)
EXTENDS Integers, Sequences, FiniteSets, TLC

VARIABLES trace, consumed, requested, claimed, markedBy, last, pairing

vars == <<trace, consumed, requested, claimed, markedBy, last, pairing>>

(***************************************************************************)
(* Bounds of the model.                                                    *)
(***************************************************************************)
\* the longest list of event logs attached to the root call
MaxEvents == 2

(***************************************************************************)
(* Addresses.  An address string is modelled by the UTF-16 code units of   *)
(* its hex digits after the common "0x" prefix, shortened to two digits.   *)
(* ABI decoding yields checksummed (mixed-case) strings.                   *)
(***************************************************************************)
Undefined == <<>>

\* "1a", "a1", "B1": numerically 0x1a < 0xa1 < 0xB1
Tok1 == <<49, 97>>
TokA == <<97, 49>>
TokB == <<66, 49>>
Tokens == {Tok1, TokA, TokB}

Router1 == <<55, 97>>
Router2 == <<100, 57>>
Factory1 == <<53, 67>>
Factory2 == <<67, 48>>
Hash1 == <<57, 54>>
Hash2 == <<101, 49>>
Stranger == <<51, 51>>
Sender == <<50, 50>>
Recipient == <<52, 52>>
Weth == <<67, 50>>
Pool == <<56, 56>>
NativePlaceholder == <<101, 101>>

uniswapsByRouter ==
    (Router1 :> [factory |-> Factory1, initcodeHash |-> Hash1]) @@
    (Router2 :> [factory |-> Factory2, initcodeHash |-> Hash2])

NoRouter == [factory |-> Undefined, initcodeHash |-> Undefined]

\* a variant that falls back to the first router of the table
routerInfoOfDefault(to) == uniswapsByRouter[Router1]
\* uniswapsByRouter[node.to]: undefined for an address that is no key
routerInfoOf(to) ==
    IF to \in DOMAIN uniswapsByRouter THEN uniswapsByRouter[to] ELSE NoRouter

\* JavaScript's a < b on strings: lexicographic on UTF-16 code units
RECURSIVE StrLess(_, _)
StrLess(a, b) ==
    IF b = <<>> THEN FALSE
    ELSE IF a = <<>> THEN TRUE
    ELSE IF Head(a) # Head(b) THEN Head(a) < Head(b)
    ELSE StrLess(Tail(a), Tail(b))

\* the value of one hex digit given by its code unit
HexDigit(c) ==
    IF c >= 97 THEN c - 87 ELSE IF c >= 65 THEN c - 55 ELSE c - 48

RECURSIVE HexValue(_)
HexValue(a) ==
    IF a = <<>> THEN 0 ELSE HexValue(SubSeq(a, 1, Len(a) - 1)) * 16 + HexDigit(a[Len(a)])

(***************************************************************************)
(* getTokens and computePairAddress of the swap decoder.  keccak256 and    *)
(* CREATE2 are taken to be collision free: the derived address is the      *)
(* concatenation of what is hashed, in the order it is hashed.             *)
(***************************************************************************)
\* a variant that hands the tokens back in the order given
getTokensAsGiven(tokenA, tokenB) == <<tokenA, tokenB>>
\* lines 251-253
getTokens(tokenA, tokenB) ==
    IF StrLess(tokenA, tokenB) THEN <<tokenA, tokenB>> ELSE <<tokenB, tokenA>>

getCreate2Address(factory, salt, initcodeHash) == factory \o salt \o initcodeHash

computePairAddress(factory, initcodeHash, tokenA, tokenB) ==
    LET sorted == getTokens(tokenA, tokenB)
        salt == sorted[1] \o sorted[2]
    IN  getCreate2Address(factory, salt, initcodeHash)

\* the address the pair of two tokens has on chain: token0 is the numerically
\* smaller address
ChainPairAddress(factory, initcodeHash, tokenA, tokenB) ==
    LET t0 == IF HexValue(tokenA) < HexValue(tokenB) THEN tokenA ELSE tokenB
        t1 == IF HexValue(tokenA) < HexValue(tokenB) THEN tokenB ELSE tokenA
    IN  getCreate2Address(factory, t0 \o t1, initcodeHash)

(***************************************************************************)
(* Function tables.  A selector is the first four bytes of the hash of the *)
(* canonical signature; the seventeen signatures are functions of one      *)
(* router contract, so their selectors differ, and a selector is modelled  *)
(* by the function name it is the hash of.                                 *)
(***************************************************************************)
Selector(name) == name

hasSelector(calldata, name) == calldata.sel = Selector(name)

swapFunctions == <<
    [name |-> "swapExactTokensForTokens", exactIn |-> TRUE, input |-> "tokens",
     output |-> "tokens", fee |-> FALSE, returns |-> TRUE,
     params |-> {"amountIn", "amountOutMin", "path", "to", "deadline"}],
    [name |-> "swapTokensForExactTokens", exactIn |-> FALSE, input |-> "tokens",
     output |-> "tokens", fee |-> FALSE, returns |-> TRUE,
     params |-> {"amountOut", "amountInMax", "path", "to", "deadline"}],
    [name |-> "swapExactETHForTokens", exactIn |-> TRUE, input |-> "eth",
     output |-> "tokens", fee |-> FALSE, returns |-> TRUE,
     params |-> {"amountOutMin", "path", "to", "deadline"}],
    [name |-> "swapTokensForExactETH", exactIn |-> FALSE, input |-> "tokens",
     output |-> "eth", fee |-> FALSE, returns |-> TRUE,
     params |-> {"amountOut", "amountInMax", "path", "to", "deadline"}],
    [name |-> "swapExactTokensForETH", exactIn |-> TRUE, input |-> "tokens",
     output |-> "eth", fee |-> FALSE, returns |-> TRUE,
     params |-> {"amountIn", "amountOutMin", "path", "to", "deadline"}],
    [name |-> "swapETHForExactTokens", exactIn |-> FALSE, input |-> "eth",
     output |-> "tokens", fee |-> FALSE, returns |-> TRUE,
     params |-> {"amountOut", "path", "to", "deadline"}],
    [name |-> "swapExactTokensForTokensSupportingFeeOnTransferTokens",
     exactIn |-> TRUE, input |-> "tokens", output |-> "tokens", fee |-> TRUE,
     returns |-> FALSE,
     params |-> {"amountIn", "amountOutMin", "path", "to", "deadline"}],
    [name |-> "swapExactETHForTokensSupportingFeeOnTransferTokens",
     exactIn |-> TRUE, input |-> "eth", output |-> "tokens", fee |-> TRUE,
     returns |-> FALSE,
     params |-> {"amountOutMin", "path", "to", "deadline"}],
    [name |-> "swapExactTokensForETHSupportingFeeOnTransferTokens",
     exactIn |-> TRUE, input |-> "tokens", output |-> "eth", fee |-> TRUE,
     returns |-> FALSE,
     params |-> {"amountIn", "amountOutMin", "path", "to", "deadline"}] >>

addLiquidityFunctionTable == <<
    [name |-> "addLiquidity", eth |-> FALSE,
     params |-> {"tokenA", "tokenB", "amountADesired", "amountBDesired",
                 "amountAMin", "amountBMin", "to", "deadline"},
     outputs |-> <<"amountA", "amountB", "liquidity">>],
    [name |-> "addLiquidityETH", eth |-> TRUE,
     params |-> {"token", "amountTokenDesired", "amountTokenMin",
                 "amountETHMin", "to"},
     outputs |-> <<"amountToken", "amountETH", "liquidity">>] >>

\* the remove-liquidity decoder's table (named addLiquidityFunctions in the
\* source): each signature with the routine bound to it
removeLiquidityFunctionTable == <<
    [name |-> "removeLiquidity", routine |-> "decodeRemoveLiquidity",
     params |-> {"tokenA", "tokenB", "liquidity", "amountAMin", "amountBMin",
                 "to", "deadline"},
     outputs |-> <<"amountA", "amountB">>],
    [name |-> "removeLiquidityETH", routine |-> "decodeRemoveLiquidityETH",
     params |-> {"token", "liquidity", "amountTokenMin", "amountETHMin", "to",
                 "deadline"},
     outputs |-> <<"amountToken", "amountETH">>],
    [name |-> "removeLiquidityWithPermit",
     routine |-> "decodeRemoveLiquidityWithPermit",
     params |-> {"tokenA", "tokenB", "liquidity", "amountAMin", "amountBMin",
                 "to", "deadline", "approveMax", "v", "r", "s"},
     outputs |-> <<"amountA", "amountB">>],
    [name |-> "removeLiquidityETHWithPermit",
     routine |-> "decodeRemoveLiquidityETHWithPermit",
     params |-> {"token", "liquidity", "amountTokenMin", "amountETHMin", "to",
                 "deadline", "approveMax", "v", "r", "s"},
     outputs |-> <<"amountToken", "amountETH">>],
    [name |-> "removeLiquidityETHSupportingFeeOnTransferTokens",
     routine |-> "decodeRemoveLiquidityETHSupportingFeeOnTransferTokens",
     params |-> {"token", "liquidity", "amountTokenMin", "amountETHMin", "to",
                 "deadline"},
     outputs |-> <<"amountETH">>],
    [name |-> "removeLiquidityETHWithPermitSupportingFeeOnTransferTokens",
     routine |-> "decodeRemoveLiquidityETHWithPermitSupportingFeeOnTransferTokens",
     params |-> {"token", "liquidity", "amountTokenMin", "amountETHMin", "to",
                 "deadline", "approveMax", "v", "r", "s"},
     outputs |-> <<"amountETH">>] >>

Names(table) == {table[i].name : i \in 1..Len(table)}

\* Object.entries(functions).find(...): the index of the first entry whose
\* selector the call data starts with, 0 when there is none
FindFunction(table, calldata) ==
    LET hits == {i \in 1..Len(table) : hasSelector(calldata, table[i].name)}
    IN  IF hits = {} THEN 0 ELSE CHOOSE i \in hits : \A j \in hits : i <= j

(***************************************************************************)
(* The decoder state and its methods.  DecoderState is declared in         *)
(* ./types, which is not part of the sources at hand: the methods follow   *)
(* the specification's decoder state (a set of consumed paths, a set of    *)
(* addresses whose metadata is requested).  A method handed a missing node *)
(* (an index past the end of a filtered child list) is taken to do         *)
(* nothing, the reading under which a missing sub-call is tolerated.       *)
(* A state carries err, the exception in flight: "none" while the call     *)
(* runs.  Every step is skipped once an exception is in flight.            *)
(***************************************************************************)
isConsumed(st, node) == node.path \in st.consumed

Mark(st, paths) ==
    IF st.err # "none" THEN st ELSE [st EXCEPT !.consumed = @ \cup paths]

Raise(st, e) == IF st.err # "none" THEN st ELSE [st EXCEPT !.err = e]

\* a variant that marks the parent of the node as well
consumeWithParent(st, node) ==
    Mark(st, {node.path, SubSeq(node.path, 1, Len(node.path) - 1)})
consume(st, node) == Mark(st, {node.path})

\* calls[i] of JavaScript, i counted from 0: a sequence of at most one node
At(calls, i) == IF i + 1 \in 1..Len(calls) THEN <<calls[i + 1]>> ELSE <<>>

RECURSIVE PathsOf(_)
PathsOf(node) ==
    {node.path} \cup
    (IF node.children.present
     THEN UNION {PathsOf(node.children.list[i]) : i \in 1..Len(node.children.list)}
     ELSE {})

consumeTransferFrom(st, opt) == Mark(st, {opt[i].path : i \in 1..Len(opt)})

consumeTransfer(st, opt) == Mark(st, {opt[i].path : i \in 1..Len(opt)})

consumeAll(st, opt) == Mark(st, UNION {PathsOf(opt[i]) : i \in 1..Len(opt)})

requestTokenMetadata(st, address) ==
    IF st.err # "none" THEN st ELSE [st EXCEPT !.requested = @ \cup {address}]

\* the remove-liquidity decoder's helpers of the Decoder base class
handleTransferFrom(st, opt) == Mark(st, {opt[i].path : i \in 1..Len(opt)})

handleTransfer(st, opt) == Mark(st, {opt[i].path : i \in 1..Len(opt)})

handleRecursively(st, opt) == Mark(st, UNION {PathsOf(opt[i]) : i \in 1..Len(opt)})

(***************************************************************************)
(* ABI decoding of a call against a matched signature (Decoder's           *)
(* decodeFunctionWithFragment, declared in ./types): the declared inputs   *)
(* by name, and the declared outputs by position when return data is       *)
(* present, null otherwise.  Malformed call data or return data raises a   *)
(* decode error.  A value that may be undefined is a set of at most one    *)
(* element.                                                                *)
(***************************************************************************)
Input(inputs, name) == IF name \in DOMAIN inputs THEN {inputs[name]} ELSE {}

decodeFunctionWithFragment(node, fn) ==
    IF ~node.calldata.ok \/ (node.returndata.present /\ ~node.returndata.ok)
    THEN [err |-> TRUE, inputs |-> <<>>, hasOutputs |-> FALSE, outputs |-> <<>>]
    ELSE [err |-> FALSE,
          inputs |-> [n \in fn.params \cap DOMAIN node.calldata.args
                        |-> node.calldata.args[n]],
          hasOutputs |-> node.returndata.present,
          outputs |-> node.returndata.words]

(***************************************************************************)
(* What a decode call hands back: its outcome ("null", "record", or the    *)
(* exception it threw), the decoder state it leaves and the record.        *)
(***************************************************************************)
NoRecord == [type |-> "none"]

ReturnNull(st) ==
    [outcome |-> "null", consumed |-> st.consumed, requested |-> st.requested,
     record |-> NoRecord]

Finish(st, record) ==
    [outcome |-> IF st.err = "none" THEN "record" ELSE st.err,
     consumed |-> st.consumed, requested |-> st.requested,
     record |-> IF st.err = "none" THEN record ELSE NoRecord]

CallsOf(node) == SelectSeq(node.children.list, LAMBDA v : v.type = "call")

(***************************************************************************)
(* UniswapV2RouterSwapDecoder                                              *)
(***************************************************************************)
consumeTokenInputSwap(st, node) ==
    IF ~node.children.present THEN st
    ELSE consumeTransferFrom(st, At(CallsOf(node), 0))

consumeETHInputSwap(st, node) ==
    IF ~node.children.present THEN st
    ELSE LET calls == CallsOf(node)
             s1 == consumeAll(st, At(calls, 0))
             s2 == consumeAll(s1, At(calls, 1))
         IN  \* calls[calls.length - 1].value of an empty list
             IF calls = <<>> THEN Raise(s2, "TypeError")
             ELSE IF calls[Len(calls)].value # 0
                  THEN consumeAll(s2, At(calls, Len(calls) - 1))
                  ELSE s2

consumeSwaps(st, node) ==
    IF ~node.children.present THEN st
    ELSE LET swaps == SelectSeq(node.children.list,
                         LAMBDA c : c.type = "call" /\ hasSelector(c.calldata, "swap"))
             transfers(c) ==
                 IF ~c.children.present THEN <<>>
                 ELSE SelectSeq(c.children.list,
                         LAMBDA v : v.type = "call" /\ hasSelector(v.calldata, "transfer"))
             inner(c) == {transfers(c)[j].path : j \in 1..Len(transfers(c))}
         IN  Mark(st, UNION {{swaps[i].path} \cup inner(swaps[i]) : i \in 1..Len(swaps)})

consumeETHOutputSwap(st, node) ==
    IF ~node.children.present THEN st
    ELSE LET calls == CallsOf(node)
             s1 == consumeAll(st, At(calls, Len(calls) - 2))
         IN  consumeAll(s1, At(calls, Len(calls) - 1))

\* lines 109-119: the node itself, then the sub-calls of the swap
swapConsume(st, node, fn) ==
    LET s1 == consume(st, node)
        s2 == IF fn.input = "tokens" THEN consumeTokenInputSwap(s1, node)
              ELSE consumeETHInputSwap(s1, node)
        s3 == consumeSwaps(s2, node)
    IN  IF fn.output = "eth" THEN consumeETHOutputSwap(s3, node) ELSE s3

\* lines 121-129
swapResultOf(node, inputs) ==
    LET path == inputs["path"]
    IN  [type |-> "uniswap-v2-router-swap", operator |-> node.from,
         recipient |-> inputs["to"], tokenIn |-> path[1], tokenOut |-> path[Len(path)],
         amountIn |-> {}, amountInMax |-> {}, amountOut |-> {}, amountOutMin |-> {}]

\* lines 135-142
amountsFromCalldata(rec, node, fn, inputs) ==
    IF fn.exactIn
    THEN [rec EXCEPT !.amountIn = IF fn.input = "eth" THEN {node.value}
                                  ELSE Input(inputs, "amountIn"),
                     !.amountOutMin = Input(inputs, "amountOutMin")]
    ELSE [rec EXCEPT !.amountOut = Input(inputs, "amountOut"),
                     !.amountInMax = Input(inputs, "amountInMax")]

hasTopic(log, name) == log.topic = Selector(name)

SwapEventsOf(node) == SelectSeq(node.logs.list, LAMBDA log : hasTopic(log, "Swap"))

\* lines 152-158 and 168: the first Swap event at the first hop's pair
firstSwapEvent(node, routerInfo, path) ==
    LET swapEvents == SwapEventsOf(node)
        sorted == getTokens(path[1], path[2])
        firstPairAddress == computePairAddress(routerInfo.factory,
                                routerInfo.initcodeHash, sorted[1], sorted[2])
        hits == {i \in 1..Len(swapEvents) : swapEvents[i].address = firstPairAddress}
    IN  IF hits = {} THEN <<>>
        ELSE <<swapEvents[CHOOSE i \in hits : \A j \in hits : i <= j]>>

\* lines 160-166 and 169: the last Swap event at the last hop's pair
lastSwapEvent(node, routerInfo, path) ==
    LET swapEvents == SwapEventsOf(node)
        sorted == getTokens(path[Len(path) - 1], path[Len(path)])
        lastPairAddress == computePairAddress(routerInfo.factory,
                               routerInfo.initcodeHash, sorted[1], sorted[2])
        hits == {i \in 1..Len(swapEvents) : swapEvents[i].address = lastPairAddress}
    IN  IF hits = {} THEN <<>>
        ELSE <<swapEvents[CHOOSE i \in hits : \A j \in hits : i >= j]>>

\* variants that read the other side of the event
eventAmountInFlipped(event, path) ==
    IF getTokens(path[1], path[2])[1] = path[1] THEN event.amount1In
    ELSE event.amount0In
\* lines 174-175
eventAmountIn(event, path) ==
    IF getTokens(path[1], path[2])[1] = path[1] THEN event.amount0In
    ELSE event.amount1In

eventAmountOutFlipped(event, path) ==
    IF getTokens(path[Len(path) - 1], path[Len(path)])[1] = path[Len(path)]
    THEN event.amount1Out ELSE event.amount0Out
\* lines 181-184
eventAmountOut(event, path) ==
    IF getTokens(path[Len(path) - 1], path[Len(path)])[1] = path[Len(path)]
    THEN event.amount0Out ELSE event.amount1Out

\* a variant that lets an event fill only an amount no earlier source has set
amountsFromEventsIfUnset(rec, node, routerInfo, path) ==
    IF ~node.logs.present THEN rec
    ELSE LET first == firstSwapEvent(node, routerInfo, path)
             final == lastSwapEvent(node, routerInfo, path)
         IN  [rec EXCEPT
                !.amountIn = IF first # <<>> /\ @ = {}
                             THEN {eventAmountIn(first[1], path)} ELSE @,
                !.amountOut = IF final # <<>> /\ @ = {}
                              THEN {eventAmountOut(final[1], path)} ELSE @]
\* lines 144-186
amountsFromEvents(rec, node, routerInfo, path) ==
    IF ~node.logs.present THEN rec
    ELSE LET first == firstSwapEvent(node, routerInfo, path)
             final == lastSwapEvent(node, routerInfo, path)
         IN  [rec EXCEPT
                !.amountIn = IF first # <<>>
                             THEN {eventAmountIn(first[1], path)} ELSE @,
                !.amountOut = IF final # <<>>
                              THEN {eventAmountOut(final[1], path)} ELSE @]

BalanceOfCallsOf(node) ==
    SelectSeq(node.children.list,
        LAMBDA v : v.type = "staticcall" /\ hasSelector(v.calldata, "balanceOf"))

\* BigNumber.from(call.returndata) of a one-word return
WordOf(call) == call.returndata.words[1]

\* lines 188-217: [err, rec]
amountsFromReturndata(rec, node, fn, decoded) ==
    IF ~decoded.hasOutputs THEN [err |-> "none", rec |-> rec]
    ELSE IF ~fn.fee
    THEN LET amounts == decoded.outputs
         IN  [err |-> "none",
              rec |-> [rec EXCEPT !.amountOut =
                          IF amounts = <<>> THEN {} ELSE {amounts[Len(amounts)]}]]
    ELSE IF ~node.children.present THEN [err |-> "none", rec |-> rec]
    ELSE IF fn.output = "tokens"
    THEN LET balanceOfCalls == BalanceOfCallsOf(node)
         IN  IF balanceOfCalls = <<>> THEN [err |-> "TypeError", rec |-> rec]
             ELSE [err |-> "none",
                   rec |-> [rec EXCEPT !.amountOut =
                               {WordOf(balanceOfCalls[Len(balanceOfCalls)])
                                  - WordOf(balanceOfCalls[1])}]]
    ELSE LET calls == CallsOf(node)
         IN  IF calls = <<>> THEN [err |-> "TypeError", rec |-> rec]
             ELSE [err |-> "none",
                   rec |-> [rec EXCEPT !.amountOut = {calls[Len(calls)].value}]]

\* a variant that never sees a node as consumed
swapSeesConsumedNever(st, node) == FALSE
\* line 93
swapSeesConsumed(st, node) == isConsumed(st, node)

\* lines 105-219, once the guards have passed
swapDecodeMatched(st, node, fn, routerInfo) ==
    LET decoded == decodeFunctionWithFragment(node, fn)
    IN  IF decoded.err THEN Finish(Raise(st, "DecodeError"), NoRecord)
        ELSE LET inputs == decoded.inputs
                 s1 == swapConsume(st, node, fn)
                 r0 == swapResultOf(node, inputs)
                 s2 == requestTokenMetadata(
                           requestTokenMetadata(s1, r0.tokenIn), r0.tokenOut)
                 r1 == amountsFromCalldata(r0, node, fn, inputs)
                 r2 == amountsFromEvents(r1, node, routerInfo, inputs["path"])
                 r3 == amountsFromReturndata(r2, node, fn, decoded)
             IN  IF s2.err # "none" THEN Finish(s2, NoRecord)
                 ELSE Finish(Raise(s2, r3.err), r3.rec)

\* lines 92-220
swapDecodeCall(st, node) ==
    IF swapSeesConsumed(st, node) THEN ReturnNull(st)
    ELSE IF node.type # "call" THEN ReturnNull(st)
    ELSE LET routerInfo == routerInfoOf(node.to)
             found == FindFunction(swapFunctions, node.calldata)
         IN  IF routerInfo = NoRouter THEN ReturnNull(st)
             ELSE IF found = 0 THEN ReturnNull(st)
             ELSE swapDecodeMatched(st, node, swapFunctions[found], routerInfo)

(***************************************************************************)
(* UniswapV2RouterAddLiquidityDecoder.decodeCall.  The routines            *)
(* decodeAddLiquidity and decodeAddLiquidityETH of the class are called    *)
(* from nowhere.                                                           *)
(***************************************************************************)
\* lines 362-372: the record has no pool, amountA, amountB or liquidity
addLiquidityResultOf(node, fn, inputs) ==
    [type |-> "uniswap-v2-router-add-liquidity", actor |-> node.from,
     recipient |-> inputs["to"],
     tokenA |-> IF fn.eth THEN inputs["token"] ELSE inputs["tokenA"],
     tokenB |-> IF fn.eth THEN NativePlaceholder ELSE inputs["tokenB"],
     amountAMin |-> IF fn.eth THEN Input(inputs, "amountTokenMin")
                    ELSE Input(inputs, "amountAMin"),
     amountBMin |-> IF fn.eth THEN Input(inputs, "amountETHMin")
                    ELSE Input(inputs, "amountBMin"),
     amountADesired |-> IF fn.eth THEN Input(inputs, "amountTokenMin")
                        ELSE Input(inputs, "amountAMin"),
     amountBDesired |-> IF fn.eth THEN {} ELSE Input(inputs, "amountBMin")]

\* lines 348-379
addLiquidityDecodeCall(st, node) ==
    IF isConsumed(st, node) THEN ReturnNull(st)
    ELSE IF node.type # "call" THEN ReturnNull(st)
    ELSE LET found == FindFunction(addLiquidityFunctionTable, node.calldata)
         IN  IF found = 0 THEN ReturnNull(st)
             ELSE LET fn == addLiquidityFunctionTable[found]
                      decoded == decodeFunctionWithFragment(node, fn)
                  IN  IF decoded.err THEN Finish(Raise(st, "DecodeError"), NoRecord)
                      ELSE LET result == addLiquidityResultOf(node, fn, decoded.inputs)
                               s1 == requestTokenMetadata(st, result.tokenA)
                               s2 == requestTokenMetadata(s1, result.tokenB)
                               \* result.pool is no property of the record
                               s3 == requestTokenMetadata(s2, Undefined)
                           IN  Finish(s3, result)

(***************************************************************************)
(* UniswapV2RouterRemoveLiquidityDecoder.decode.  state.handled is the     *)
(* consumed set.  A routine hands back the state it leaves (with err set   *)
(* when it throws) and the seven values of its result.                     *)
(***************************************************************************)
SubcallsOf(node) ==
    SelectSeq(node.children.list, LAMBDA v : v.type = "call" /\ v.variant = "call")

StaticcallsOf(node) ==
    SelectSeq(node.children.list,
        LAMBDA v : v.type = "call" /\ v.variant = "staticcall")

\* outputs[name] of the decoded return data
Output(fn, decoded, name) ==
    decoded.outputs[CHOOSE i \in 1..Len(fn.outputs) : fn.outputs[i] = name]

\* lines 561-574
handleRemoveLiquidity(st, subcalls, offset) ==
    handleRecursively(handleTransferFrom(st, At(subcalls, offset)),
                      At(subcalls, offset + 1))

\* the transfer, the weth withdraw and the eth return after the burn:
\* state.handled[subcalls[offset + 2].path] = true throws on a missing sub-call
removeLiquidityETHLegs(st, subcalls, offset) ==
    LET s1 == handleTransfer(st, At(subcalls, offset))
        s2 == handleRecursively(s1, At(subcalls, offset + 1))
    IN  IF At(subcalls, offset + 2) = <<>> THEN Raise(s2, "TypeError")
        ELSE Mark(s2, {subcalls[offset + 3].path})

\* the result array of a routine: subcalls[0].to and outputs[...] throw on a
\* missing first sub-call and on null outputs
RoutineResult(st, subcalls, decoded, values) ==
    IF subcalls = <<>> \/ ~decoded.hasOutputs
    THEN [st |-> Raise(st, "TypeError"), values |-> <<>>]
    ELSE [st |-> st, values |-> values]

\* lines 576-594
decodeRemoveLiquidity(st, node, fn, decoded, subcalls) ==
    LET s1 == handleRemoveLiquidity(st, subcalls, 0)
        inputs == decoded.inputs
    IN  RoutineResult(s1, subcalls, decoded,
            <<subcalls[1].to, inputs["tokenA"], inputs["tokenB"],
              Output(fn, decoded, "amountA"), Output(fn, decoded, "amountB"),
              inputs["liquidity"], inputs["to"]>>)

\* lines 596-623
decodeRemoveLiquidityETH(st, node, fn, decoded, subcalls) ==
    LET s1 == handleRemoveLiquidity(st, subcalls, 0)
        s2 == removeLiquidityETHLegs(s1, subcalls, 2)
        inputs == decoded.inputs
    IN  RoutineResult(s2, subcalls, decoded,
            <<subcalls[1].to, inputs["token"], NativePlaceholder,
              Output(fn, decoded, "amountToken"), Output(fn, decoded, "amountETH"),
              inputs["liquidity"], inputs["to"]>>)

\* lines 625-643
decodeRemoveLiquidityWithPermit(st, node, fn, decoded, subcalls) ==
    LET s1 == handleRemoveLiquidity(st, subcalls, 1)
        inputs == decoded.inputs
    IN  RoutineResult(s1, subcalls, decoded,
            <<subcalls[1].to, inputs["tokenA"], inputs["tokenB"],
              Output(fn, decoded, "amountA"), Output(fn, decoded, "amountB"),
              inputs["liquidity"], inputs["to"]>>)

\* lines 645-672
decodeRemoveLiquidityETHWithPermit(st, node, fn, decoded, subcalls) ==
    LET s1 == handleRemoveLiquidity(st, subcalls, 1)
        s2 == removeLiquidityETHLegs(s1, subcalls, 3)
        inputs == decoded.inputs
    IN  RoutineResult(s2, subcalls, decoded,
            <<subcalls[1].to, inputs["token"], NativePlaceholder,
              Output(fn, decoded, "amountToken"), Output(fn, decoded, "amountETH"),
              inputs["liquidity"], inputs["to"]>>)

\* lines 692-695: [st, output]
lastStaticcallOutput(st, node) ==
    LET staticcalls == StaticcallsOf(node)
    IN  IF staticcalls = <<>> THEN [st |-> Raise(st, "TypeError"), output |-> 0]
        ELSE [st |-> st, output |-> WordOf(staticcalls[Len(staticcalls)])]

\* lines 674-706
decodeRemoveLiquidityETHSupportingFeeOnTransferTokens(st, node, fn, decoded, subcalls) ==
    LET s1 == handleRemoveLiquidity(st, subcalls, 0)
        s2 == removeLiquidityETHLegs(s1, subcalls, 2)
        out == lastStaticcallOutput(s2, node)
        inputs == decoded.inputs
    IN  RoutineResult(out.st, subcalls, decoded,
            <<subcalls[1].to, inputs["token"], NativePlaceholder, out.output,
              Output(fn, decoded, "amountETH"), inputs["liquidity"], inputs["to"]>>)

\* lines 708-740
decodeRemoveLiquidityETHWithPermitSupportingFeeOnTransferTokens(st, node, fn, decoded, subcalls) ==
    LET s1 == handleRemoveLiquidity(st, subcalls, 1)
        s2 == removeLiquidityETHLegs(s1, subcalls, 3)
        out == lastStaticcallOutput(s2, node)
        inputs == decoded.inputs
    IN  RoutineResult(out.st, subcalls, decoded,
            <<subcalls[1].to, inputs["token"], NativePlaceholder, out.output,
              Output(fn, decoded, "amountETH"), inputs["liquidity"], inputs["to"]>>)

\* decoder[1](node, state, inputs, outputs, subcalls)
RunRoutine(st, node, fn, decoded, subcalls) ==
    CASE fn.routine = "decodeRemoveLiquidity" ->
            decodeRemoveLiquidity(st, node, fn, decoded, subcalls)
      [] fn.routine = "decodeRemoveLiquidityETH" ->
            decodeRemoveLiquidityETH(st, node, fn, decoded, subcalls)
      [] fn.routine = "decodeRemoveLiquidityWithPermit" ->
            decodeRemoveLiquidityWithPermit(st, node, fn, decoded, subcalls)
      [] fn.routine = "decodeRemoveLiquidityETHWithPermit" ->
            decodeRemoveLiquidityETHWithPermit(st, node, fn, decoded, subcalls)
      [] fn.routine = "decodeRemoveLiquidityETHSupportingFeeOnTransferTokens" ->
            decodeRemoveLiquidityETHSupportingFeeOnTransferTokens(
                st, node, fn, decoded, subcalls)
      [] OTHER ->
            decodeRemoveLiquidityETHWithPermitSupportingFeeOnTransferTokens(
                st, node, fn, decoded, subcalls)

\* lines 514-542, after state.handled[node.path] = true
removeLiquidityDecodeMatched(st, node, fn) ==
    LET decoded == decodeFunctionWithFragment(node, fn)
    IN  IF decoded.err THEN Finish(Raise(st, "DecodeError"), NoRecord)
        \* node.children.filter of a node without a child list
        ELSE IF ~node.children.present THEN Finish(Raise(st, "TypeError"), NoRecord)
        ELSE LET got == RunRoutine(st, node, fn, decoded, SubcallsOf(node))
             IN  IF got.st.err # "none" THEN Finish(got.st, NoRecord)
                 ELSE LET v == got.values
                          s1 == requestTokenMetadata(got.st, v[2])
                          s2 == requestTokenMetadata(s1, v[3])
                          s3 == requestTokenMetadata(s2, v[1])
                      IN  Finish(s3,
                            [type |-> "uniswap-v2-router-remove-liquidity",
                             actor |-> node.from, recipient |-> v[7],
                             pool |-> v[1], tokenA |-> v[2], tokenB |-> v[3],
                             amountA |-> v[4], amountB |-> v[5],
                             liquidity |-> v[6]])

\* a variant that marks the node handled before it looks the selector up
removeLiquidityDecodeMarkingFirst(st, node) ==
    IF node.path \in st.consumed THEN ReturnNull(st)
    ELSE IF node.type # "call" THEN ReturnNull(st)
    ELSE LET found == FindFunction(removeLiquidityFunctionTable, node.calldata)
         IN  IF found = 0 THEN ReturnNull(Mark(st, {node.path}))
             ELSE removeLiquidityDecodeMatched(
                      Mark(st, {node.path}), node, removeLiquidityFunctionTable[found])
\* lines 500-543
removeLiquidityDecode(st, node) ==
    IF node.path \in st.consumed THEN ReturnNull(st)
    ELSE IF node.type # "call" THEN ReturnNull(st)
    ELSE LET found == FindFunction(removeLiquidityFunctionTable, node.calldata)
         IN  IF found = 0 THEN ReturnNull(st)
             ELSE removeLiquidityDecodeMatched(
                      Mark(st, {node.path}), node, removeLiquidityFunctionTable[found])

(***************************************************************************)
(* The traces offered to the decoders.  A node carries its path, type and  *)
(* call variant, participants, value, call data (selector, whether it      *)
(* decodes, the argument values by name), return data (whether present,    *)
(* whether it decodes, its words), logs and children.  An optional list    *)
(* (logs, children) carries whether it is present.                         *)
(***************************************************************************)
SwapNames == Names(swapFunctions)
AddLiquidityNames == Names(addLiquidityFunctionTable)
RemoveLiquidityNames == Names(removeLiquidityFunctionTable)
RouterNames == SwapNames \cup AddLiquidityNames \cup RemoveLiquidityNames

Args(path) ==
    [path |-> path, to |-> Recipient, deadline |-> 0,
     amountIn |-> 100, amountOutMin |-> 1, amountOut |-> 90, amountInMax |-> 110,
     tokenA |-> Tok1, tokenB |-> TokA, token |-> TokB, liquidity |-> 50,
     amountADesired |-> 21, amountBDesired |-> 22, amountAMin |-> 11,
     amountBMin |-> 12, amountTokenDesired |-> 23, amountTokenMin |-> 13,
     amountETHMin |-> 14]

NoRet == [present |-> FALSE, ok |-> TRUE, words |-> <<>>]
Ret(words) == [present |-> TRUE, ok |-> TRUE, words |-> words]
BadRet == [present |-> TRUE, ok |-> FALSE, words |-> <<>>]

NoLogs == [present |-> FALSE, list |-> <<>>]
Logs(list) == [present |-> TRUE, list |-> list]

NoKids == [present |-> FALSE, list |-> <<>>]
Kids(list) == [present |-> TRUE, list |-> list]

Node(type, variant, to, value, sel, ok, path, ret, logs, kids) ==
    [path |-> <<>>, type |-> type, variant |-> variant, from |-> Sender, to |-> to,
     value |-> value,
     calldata |-> [sel |-> sel, ok |-> ok,
                   args |-> IF sel \in RouterNames THEN Args(path)
                            ELSE [deadline |-> 0]],
     returndata |-> ret, logs |-> logs, children |-> kids]

Leaf(to, sel, value) ==
    Node("call", "call", to, value, sel, TRUE, <<Tok1, TokA>>, Ret(<<1>>), NoLogs,
         Kids(<<>>))

transferFromCall == Leaf(TokA, "transferFrom", 0)
transferCall == Leaf(Weth, "transfer", 0)
depositCall == Leaf(Weth, "deposit", 100)
withdrawCall == Leaf(Weth, "withdraw", 0)
ethSendCall == Leaf(Recipient, "", 95)
ethRefundCall == Leaf(Sender, "", 3)
mintCall == Leaf(Pool, "mint", 0)
permitCall == Leaf(Pool, "permit", 0)
createPairCall == Leaf(Factory1, "createPair", 0)
pairSwapCall ==
    Node("call", "call", Pool, 0, "swap", TRUE, <<Tok1, TokA>>, NoRet, NoLogs,
         Kids(<<Leaf(TokA, "transfer", 0)>>))
burnCall ==
    Node("call", "call", Pool, 0, "burn", TRUE, <<Tok1, TokA>>, Ret(<<40, 41>>), NoLogs,
         Kids(<<Leaf(TokA, "transfer", 0)>>))
\* a balance query as the swap decoder reads it (type staticcall)
balanceOfCall(balance) ==
    Node("staticcall", "staticcall", TokA, 0, "balanceOf", TRUE, <<Tok1, TokA>>,
         Ret(<<balance>>), NoLogs, Kids(<<>>))
\* a balance query as the remove-liquidity decoder reads it (type call,
\* variant staticcall)
balanceOfVariantCall(balance) ==
    Node("call", "staticcall", TokA, 0, "balanceOf", TRUE, <<Tok1, TokA>>,
         Ret(<<balance>>), NoLogs, Kids(<<>>))
\* router calls nested in a router call
nestedSwapCall ==
    Node("call", "call", Router1, 0, "swapExactTokensForTokens", TRUE, <<Tok1, TokA>>,
         NoRet, NoLogs, NoKids)
nestedAddLiquidityCall ==
    Node("call", "call", Router1, 0, "addLiquidity", TRUE, <<Tok1, TokA>>,
         NoRet, NoLogs, NoKids)

RECURSIVE Place(_, _)
Place(node, path) ==
    [node EXCEPT !.path = path,
                 !.children = [@ EXCEPT !.list =
                     [i \in 1..Len(@) |-> Place(@[i], Append(path, i))]]]

RECURSIVE NodesOf(_)
NodesOf(node) ==
    {node} \cup UNION {NodesOf(node.children.list[i]) : i \in 1..Len(node.children.list)}

SwapFunction(name) == swapFunctions[CHOOSE i \in 1..Len(swapFunctions) : swapFunctions[i].name = name]

Paths ==
    {<<Tok1, TokA>>, <<TokA, Tok1>>, <<TokA, TokB>>, <<TokB, TokA>>, <<Tok1, TokA, TokB>>}

\* the events a root call to a router can carry for a token path: Swap events
\* of the first and of the last hop's pair, at the address the pair has on
\* chain, and an event of another topic
EventsFor(to, path) ==
    LET info == IF to \in DOMAIN uniswapsByRouter THEN uniswapsByRouter[to]
                ELSE uniswapsByRouter[Router1]
        firstPair == ChainPairAddress(info.factory, info.initcodeHash, path[1], path[2])
        lastPair == ChainPairAddress(info.factory, info.initcodeHash,
                                     path[Len(path) - 1], path[Len(path)])
    IN  {[address |-> firstPair, topic |-> "Swap", amount0In |-> 0, amount1In |-> 100,
          amount0Out |-> 95, amount1Out |-> 0],
         [address |-> lastPair, topic |-> "Swap", amount0In |-> 103, amount1In |-> 7,
          amount0Out |-> 8, amount1Out |-> 94],
         [address |-> firstPair, topic |-> "Transfer", amount0In |-> 1, amount1In |-> 2,
          amount0Out |-> 3, amount1Out |-> 4]}

SeqsUpTo(S, n) == UNION {[1..k -> S] : k \in 0..n}

LogLists(to, path) ==
    {NoLogs} \cup {Logs(l) : l \in SeqsUpTo(EventsFor(to, path), MaxEvents)}

\* the sub-calls a successful swap of each shape makes
TypicalSwapKids(fn) ==
    IF fn.input = "tokens" /\ fn.output = "tokens"
    THEN IF fn.fee
         THEN Kids(<<transferFromCall, balanceOfCall(1000), pairSwapCall,
                     balanceOfCall(1080)>>)
         ELSE Kids(<<transferFromCall, pairSwapCall>>)
    ELSE IF fn.input = "eth"
    THEN IF fn.fee
         THEN Kids(<<depositCall, transferCall, balanceOfCall(1000), pairSwapCall,
                     balanceOfCall(1080)>>)
         ELSE Kids(<<depositCall, transferCall, pairSwapCall>>)
    ELSE Kids(<<transferFromCall, pairSwapCall, withdrawCall, ethSendCall>>)

SwapKidLists ==
    {NoKids, Kids(<<>>), Kids(<<balanceOfCall(1000)>>),
     Kids(<<transferFromCall, pairSwapCall>>),
     Kids(<<transferFromCall, balanceOfCall(1000), pairSwapCall, balanceOfCall(1080)>>),
     Kids(<<depositCall, transferCall, pairSwapCall>>),
     Kids(<<depositCall, transferCall, pairSwapCall, ethRefundCall>>),
     Kids(<<transferFromCall, pairSwapCall, withdrawCall, ethSendCall>>),
     Kids(<<nestedAddLiquidityCall, nestedSwapCall>>)}

LiquidityKidLists ==
    {NoKids, Kids(<<>>),
     Kids(<<transferFromCall, transferCall, mintCall>>),
     Kids(<<createPairCall, transferFromCall, depositCall, transferCall, mintCall,
            ethRefundCall>>),
     Kids(<<transferFromCall, burnCall>>),
     Kids(<<transferFromCall, burnCall, transferCall, withdrawCall>>),
     Kids(<<transferFromCall, burnCall, transferCall, withdrawCall, ethSendCall>>),
     Kids(<<permitCall, transferFromCall, burnCall, transferCall, withdrawCall,
            ethSendCall>>),
     Kids(<<transferFromCall, burnCall, transferCall, balanceOfVariantCall(77),
            withdrawCall, ethSendCall>>),
     Kids(<<permitCall, transferFromCall, burnCall, transferCall,
            balanceOfVariantCall(77), withdrawCall, ethSendCall>>),
     Kids(<<nestedSwapCall, nestedAddLiquidityCall>>)}

RootValue(sel) ==
    IF sel \in SwapNames /\ SwapFunction(sel).input = "eth" THEN 100 ELSE 0

\* swaps on a known router: every function, token path and list of events
ReconciliationTraces ==
    UNION {{Node("call", "call", Router1, RootValue(sel), sel, TRUE, path, ret, logs,
                 TypicalSwapKids(SwapFunction(sel))) :
               sel \in SwapNames, ret \in {NoRet, Ret(<<100, 94>>)},
               logs \in LogLists(Router1, path)} : path \in Paths}

\* swaps on a known router: every function and shape of the child list
StructureTraces ==
    {Node("call", "call", Router1, RootValue(sel), sel, TRUE, <<TokA, Tok1>>, ret, logs,
          kids) :
        sel \in SwapNames, ret \in {NoRet, Ret(<<100, 94>>)}, kids \in SwapKidLists,
        logs \in {NoLogs, Logs(<<CHOOSE e \in EventsFor(Router1, <<TokA, Tok1>>) :
                                    e.amount0Out = 95>>)}}

\* liquidity calls: every function and shape of the child list
LiquidityTraces ==
    {Node("call", "call", to, 0, sel, TRUE, <<Tok1, TokA>>, ret, NoLogs, kids) :
        sel \in AddLiquidityNames \cup RemoveLiquidityNames,
        to \in {Router1, Stranger}, ret \in {NoRet, Ret(<<40, 41, 42>>)},
        kids \in LiquidityKidLists}

TypicalKids(sel) ==
    IF sel \in SwapNames THEN TypicalSwapKids(SwapFunction(sel))
    ELSE Kids(<<permitCall, transferFromCall, burnCall, transferCall,
                balanceOfVariantCall(77), withdrawCall, ethSendCall>>)

\* every kind of node, destination and selector, and calls that do not decode
GuardTraces ==
    {Node(kind[1], kind[2], to, RootValue(sel), sel, TRUE, <<TokA, Tok1>>,
          Ret(<<40, 41, 42>>), NoLogs, TypicalKids(sel)) :
        kind \in {<<"call", "call">>, <<"call", "staticcall">>,
                  <<"staticcall", "staticcall">>, <<"create", "create">>},
        to \in {Router1, Router2, Stranger},
        sel \in RouterNames \cup {"transfer"}}
    \cup
    {Node("call", "call", to, RootValue(sel), sel, form[1], <<TokA, Tok1>>, form[2],
          NoLogs, TypicalKids(sel)) :
        to \in {Router1, Stranger}, sel \in RouterNames,
        form \in {<<FALSE, NoRet>>, <<FALSE, Ret(<<40, 41, 42>>)>>, <<TRUE, BadRet>>}}

\* router calls made from inside a call to another contract, next to calls
\* that are no part of them
NestedTraces ==
    {Node("call", "call", Stranger, 0, "execute", TRUE, <<Tok1, TokA>>, NoRet, NoLogs,
          Kids(<<transferFromCall,
                 Node("call", "call", Router1, RootValue(sel), sel, TRUE, <<Tok1, TokA>>,
                      Ret(<<100, 94>>), NoLogs, TypicalSwapKids(SwapFunction(sel))),
                 Node("call", "call", Router1, 0, "removeLiquidityETHWithPermit", TRUE,
                      <<Tok1, TokA>>, Ret(<<40, 41>>), NoLogs,
                      TypicalKids("removeLiquidityETHWithPermit")),
                 Node("call", "call", Router1, 0, "addLiquidity", TRUE, <<Tok1, TokA>>,
                      Ret(<<40, 41, 42>>), NoLogs,
                      Kids(<<transferFromCall, transferCall, mintCall>>)),
                 ethSendCall>>)) :
        sel \in {"swapExactETHForTokens", "swapExactTokensForETH"}}

TraceSet ==
    {Place(t, <<1>>) :
        t \in ReconciliationTraces \cup StructureTraces \cup LiquidityTraces
                \cup GuardTraces \cup NestedTraces}

(***************************************************************************)
(* The driver.  last records the latest decode call: the decoder, the      *)
(* node's path, the outcome and record, and the decoder state and the      *)
(* claims as they were before the call.  claimed and markedBy record which *)
(* decoder returned a record for a path and which decoder marked a path    *)
(* consumed.                                                               *)
(***************************************************************************)
NoCall ==
    [dec |-> "none", path |-> <<>>, outcome |-> "none", record |-> NoRecord,
     preConsumed |-> {}, preRequested |-> {}, preClaimed |-> {}]

\* no pair derivation is under way while a trace is decoded
NoPairing ==
    [factory |-> Undefined, initcodeHash |-> Undefined, tokenA |-> Undefined,
     tokenB |-> Undefined, sorted |-> <<>>, forward |-> {}, reverse |-> {}]

Init ==
    /\ trace \in TraceSet
    /\ consumed = {}
    /\ requested = {}
    /\ claimed = {}
    /\ markedBy = {}
    /\ last = NoCall
    /\ pairing = NoPairing

Offered(dec, node, result) ==
    /\ consumed' = result.consumed
    /\ requested' = result.requested
    /\ claimed' = IF result.outcome = "record" THEN claimed \cup {<<dec, node.path>>}
                  ELSE claimed
    /\ markedBy' = markedBy \cup {<<dec, p>> : p \in result.consumed \ consumed}
    /\ last' = [dec |-> dec, path |-> node.path, outcome |-> result.outcome,
                record |-> result.record, preConsumed |-> consumed,
                preRequested |-> requested, preClaimed |-> claimed]
    /\ UNCHANGED <<trace, pairing>>

Current == [consumed |-> consumed, requested |-> requested, err |-> "none"]

OfferSwap(node) == Offered("swap", node, swapDecodeCall(Current, node))

OfferAddLiquidity(node) ==
    Offered("addLiquidity", node, addLiquidityDecodeCall(Current, node))

OfferRemoveLiquidity(node) ==
    Offered("removeLiquidity", node, removeLiquidityDecode(Current, node))

Next ==
    \E node \in NodesOf(trace) :
        \/ OfferSwap(node)
        \/ OfferAddLiquidity(node)
        \/ OfferRemoveLiquidity(node)

Spec == Init /\ [][Next]_vars

(***************************************************************************)
(* getTokens and computePairAddress on their own: the functions applied to *)
(* every factory, init-code hash and pair of token addresses of a small    *)
(* set.  pairing holds the arguments, the pair getTokens returns, and the  *)
(* addresses computePairAddress returns for the tokens in the given and in *)
(* the swapped order.                                                      *)
(***************************************************************************)
\* "1B": the same first digit as Tok1, numerically 0x1a < 0x1B
Tok2 == <<49, 66>>

PairTokens == Tokens \cup {Tok2, Weth}

PairInit ==
    /\ trace = Place(nestedSwapCall, <<1>>)
    /\ consumed = {}
    /\ requested = {}
    /\ claimed = {}
    /\ markedBy = {}
    /\ last = NoCall
    /\ \E r \in DOMAIN uniswapsByRouter, h \in {Hash1, Hash2}, a \in PairTokens,
          b \in PairTokens :
          pairing = [NoPairing EXCEPT !.factory = uniswapsByRouter[r].factory,
                                      !.initcodeHash = h, !.tokenA = a, !.tokenB = b]

SortPair ==
    /\ pairing.sorted = <<>>
    /\ pairing' = [pairing EXCEPT !.sorted = getTokens(pairing.tokenA, pairing.tokenB)]
    /\ UNCHANGED <<trace, consumed, requested, claimed, markedBy, last>>

DerivePair ==
    /\ pairing.forward = {}
    /\ pairing' = [pairing EXCEPT
                      !.forward = {computePairAddress(pairing.factory,
                                      pairing.initcodeHash, pairing.tokenA, pairing.tokenB)},
                      !.reverse = {computePairAddress(pairing.factory,
                                      pairing.initcodeHash, pairing.tokenB, pairing.tokenA)}]
    /\ UNCHANGED <<trace, consumed, requested, claimed, markedBy, last>>

PairNext == SortPair \/ DerivePair

PairSpec == PairInit /\ [][PairNext]_vars

(***************************************************************************)
(* What the properties below read of the latest call.                      *)
(***************************************************************************)
Called == last.dec # "none"

LastNode == CHOOSE n \in NodesOf(trace) : n.path = last.path

TableNames(dec) ==
    IF dec = "swap" THEN SwapNames
    ELSE IF dec = "addLiquidity" THEN AddLiquidityNames
    ELSE RemoveLiquidityNames

KnownRouter(to) == to \in DOMAIN uniswapsByRouter

Decodable(node) ==
    node.calldata.ok /\ (node.returndata.present => node.returndata.ok)

\* the latest call found the node unconsumed, a call, and of a selector of
\* the decoder's table
LastSelectorMatched ==
    /\ Called
    /\ last.path \notin last.preConsumed
    /\ LastNode.type = "call"
    /\ LastNode.calldata.sel \in TableNames(last.dec)

\* C1: no path is claimed by two different decoders, and no decoder claims a
\* node whose path another decoder has marked consumed
C1_MutualExclusion ==
    /\ \A c1 \in claimed : \A c2 \in claimed : c1[2] = c2[2] => c1[1] = c2[1]
    /\ last.outcome = "record" =>
          \A m \in markedBy : m[2] = last.path => m[1] = last.dec

\* a node that one decoder marked consumed was offered to another decoder,
\* whose table holds the node's selector
C1_Witness ==
    /\ Called
    /\ LastNode.type = "call"
    /\ LastNode.calldata.sel \in TableNames(last.dec)
    /\ Decodable(LastNode)
    /\ last.dec = "swap" => KnownRouter(LastNode.to)
    /\ \E m \in markedBy : m[2] = last.path /\ m[1] # last.dec
    /\ last.outcome = "null"
    /\ claimed # {}

\* C2: once a record has been returned for a node, no later offer of the node
\* returns a record
C2_AtMostOneRecord ==
    last.outcome = "record" => ~\E c \in last.preClaimed : c[2] = last.path

\* C3: a node for which a record is returned has its path in the consumed set
C3_ClaimedIsConsumed ==
    last.outcome = "record" => last.path \in consumed

\* C4: a call of a swap selector to an address that is no router of the table
\* yields nothing from the swap decoder and leaves the consumed set and the
\* requested metadata as they were
C4_UnknownRouterNoClaim ==
    (/\ last.dec = "swap"
     /\ LastNode.calldata.sel \in SwapNames
     /\ ~KnownRouter(LastNode.to))
    => /\ last.outcome = "null"
       /\ last.record = NoRecord
       /\ consumed = last.preConsumed
       /\ requested = last.preRequested

\* an unconsumed, well-formed swap call to a stranger was offered to the swap
\* decoder
C4_Witness ==
    /\ last.dec = "swap"
    /\ LastNode.type = "call"
    /\ LastNode.calldata.sel = "swapExactTokensForTokens"
    /\ Decodable(LastNode)
    /\ LastNode.to = Stranger
    /\ last.path \notin last.preConsumed
    /\ last.outcome = "null"

\* C5: each decoder returns nothing when the path is consumed, or the node is
\* no call, or the destination is no recognized router, or no signature of
\* the decoder's table matches the selector
C5_GuardsReturnNothing ==
    (/\ Called
     /\ \/ last.path \in last.preConsumed
        \/ LastNode.type # "call"
        \/ ~KnownRouter(LastNode.to)
        \/ LastNode.calldata.sel \notin TableNames(last.dec))
    => last.outcome = "null"

\* C6: a node whose selector matches but whose call data or return data does
\* not decode yields no record and leaves the consumed set as it was
C6_DecodeErrorLeavesUnclaimed ==
    (/\ LastSelectorMatched
     /\ last.dec = "swap" => KnownRouter(LastNode.to)
     /\ ~Decodable(LastNode))
    => /\ last.record = NoRecord
       /\ consumed = last.preConsumed

\* C7: decoding a removeLiquidityETH call with fewer than five call-type
\* sub-calls raises no error and returns a record
C7_MissingEthReturnTolerated ==
    (/\ LastSelectorMatched
     /\ last.dec = "removeLiquidity"
     /\ LastNode.calldata.sel = "removeLiquidityETH"
     /\ Decodable(LastNode)
     /\ LastNode.returndata.present
     /\ LastNode.children.present
     /\ Len(SubcallsOf(LastNode)) \in 1..4)
    => last.outcome = "record"

\* C8: a swap call with fewer sub-calls than its variant expects does not
\* throw: the swap decoder returns a record
C8_MissingSubcallsTolerated ==
    (/\ LastSelectorMatched
     /\ last.dec = "swap"
     /\ KnownRouter(LastNode.to)
     /\ Decodable(LastNode))
    => last.outcome = "record"

(***************************************************************************)
(* The amount sources of the swap decoder, read off the node of the latest *)
(* call: each is a set of at most one value, empty when the source gives   *)
(* nothing.                                                                *)
(***************************************************************************)
LastSwapRecord == last.dec = "swap" /\ last.outcome = "record"

LastFn == SwapFunction(LastNode.calldata.sel)

LastPath == LastNode.calldata.args.path

\* the Swap events of the node at an address, in log order
SwapEventsAt(node, address) ==
    SelectSeq(node.logs.list,
        LAMBDA log : log.topic = "Swap" /\ log.address = address)

FirstHopEvents ==
    SwapEventsAt(LastNode,
        computePairAddress(routerInfoOf(LastNode.to).factory,
            routerInfoOf(LastNode.to).initcodeHash, LastPath[1], LastPath[2]))

LastHopEvents ==
    SwapEventsAt(LastNode,
        computePairAddress(routerInfoOf(LastNode.to).factory,
            routerInfoOf(LastNode.to).initcodeHash,
            LastPath[Len(LastPath) - 1], LastPath[Len(LastPath)]))

ArgumentIn ==
    IF ~LastFn.exactIn THEN {}
    ELSE IF LastFn.input = "eth" THEN {LastNode.value}
    ELSE {LastNode.calldata.args.amountIn}

ArgumentOut == IF LastFn.exactIn THEN {} ELSE {LastNode.calldata.args.amountOut}

EventIn ==
    IF FirstHopEvents = <<>> THEN {}
    ELSE IF StrLess(LastPath[1], LastPath[2]) THEN {FirstHopEvents[1].amount0In}
    ELSE {FirstHopEvents[1].amount1In}

EventOut ==
    IF LastHopEvents = <<>> THEN {}
    ELSE IF StrLess(LastPath[Len(LastPath)], LastPath[Len(LastPath) - 1])
    THEN {LastHopEvents[Len(LastHopEvents)].amount0Out}
    ELSE {LastHopEvents[Len(LastHopEvents)].amount1Out}

ReturnOut ==
    IF LastNode.returndata.present /\ ~LastFn.fee
    THEN {LastNode.returndata.words[Len(LastNode.returndata.words)]}
    ELSE {}

NestedOut ==
    IF ~(LastNode.returndata.present /\ LastFn.fee /\ LastNode.children.present)
    THEN {}
    ELSE IF LastFn.output = "tokens"
    THEN LET queries == BalanceOfCallsOf(LastNode)
         IN  {WordOf(queries[Len(queries)]) - WordOf(queries[1])}
    ELSE {CallsOf(LastNode)[Len(CallsOf(LastNode))].value}

\* the first, and the last, source of a list that gives a value
RECURSIVE FirstSet(_)
FirstSet(sources) ==
    IF sources = <<>> THEN {}
    ELSE IF Head(sources) # {} THEN Head(sources)
    ELSE FirstSet(Tail(sources))

RECURSIVE LastSet(_)
LastSet(sources) ==
    IF sources = <<>> THEN {}
    ELSE IF sources[Len(sources)] # {} THEN sources[Len(sources)]
    ELSE LastSet(SubSeq(sources, 1, Len(sources) - 1))

\* C9 as claimed: a later source fills an amount only when no earlier source
\* has set it
C9_EarlierSourceWins ==
    LastSwapRecord =>
        /\ last.record.amountIn = FirstSet(<<ArgumentIn, EventIn>>)
        /\ last.record.amountOut =
              FirstSet(<<ArgumentOut, EventOut, ReturnOut, NestedOut>>)

\* C9 as amended: the sources are applied in the order call arguments, event
\* logs, return data or nested diffing, and every source that gives a value
\* overwrites what an earlier one set
C9_LaterSourceWins ==
    LastSwapRecord =>
        /\ last.record.amountIn = LastSet(<<ArgumentIn, EventIn>>)
        /\ last.record.amountOut =
              LastSet(<<ArgumentOut, EventOut, ReturnOut, NestedOut>>)

\* a record whose input amount the call arguments and a Swap event both give,
\* with different values, and whose output amount an event and the return data
\* both give, with different values
C9_Witness ==
    /\ LastSwapRecord
    /\ ArgumentIn # {} /\ EventIn # {} /\ ArgumentIn # EventIn
    /\ EventOut # {} /\ ReturnOut # {} /\ EventOut # ReturnOut
    /\ last.record.amountIn = EventIn
    /\ last.record.amountOut = ReturnOut

\* the latest call is a claimed swapExactTokensForTokens over one hop whose
\* logs hold a Swap event at the pair address derived for the hop
LastSingleHopWithEvent ==
    /\ LastSwapRecord
    /\ LastNode.calldata.sel = "swapExactTokensForTokens"
    /\ Len(LastPath) = 2
    /\ LastNode.logs.present
    /\ FirstHopEvents # <<>>

\* C10 as claimed: tokenIn = A, tokenOut = B, amountIn is the amountIn
\* argument and amountOut is the out delta of a Swap event of the pair on the
\* output token's side
C10_ArgumentAndEvent ==
    LastSingleHopWithEvent =>
        /\ last.record.tokenIn = LastPath[1]
        /\ last.record.tokenOut = LastPath[2]
        /\ last.record.amountIn = {LastNode.calldata.args.amountIn}
        /\ \E i \in 1..Len(FirstHopEvents) :
              last.record.amountOut =
                  {IF StrLess(LastPath[2], LastPath[1])
                   THEN FirstHopEvents[i].amount0Out
                   ELSE FirstHopEvents[i].amount1Out}

\* C10 as amended: tokenIn = A, tokenOut = B, amountIn is the in delta of the
\* first Swap event of the pair on the input token's side, and amountOut is
\* the last returned amount when the call has return data, the out delta of
\* the last Swap event of the pair on the output token's side when it has none
C10_EventAndReturn ==
    LastSingleHopWithEvent =>
        /\ last.record.tokenIn = LastPath[1]
        /\ last.record.tokenOut = LastPath[2]
        /\ last.record.amountIn =
              {IF StrLess(LastPath[1], LastPath[2])
               THEN FirstHopEvents[1].amount0In ELSE FirstHopEvents[1].amount1In}
        /\ last.record.amountOut =
              IF LastNode.returndata.present
              THEN {LastNode.returndata.words[Len(LastNode.returndata.words)]}
              ELSE {IF StrLess(LastPath[2], LastPath[1])
                    THEN FirstHopEvents[Len(FirstHopEvents)].amount0Out
                    ELSE FirstHopEvents[Len(FirstHopEvents)].amount1Out}

\* the scenario: amountIn = 100, amountOutMin = 1, one Swap event with
\* amount0Out = 95 at the pair of (A, B), no return data
C10_Witness ==
    /\ LastSingleHopWithEvent
    /\ ~LastNode.returndata.present
    /\ LastNode.calldata.args.amountIn = 100
    /\ LastNode.calldata.args.amountOutMin = 1
    /\ Len(FirstHopEvents) = 1
    /\ FirstHopEvents[1].amount0Out = 95
    /\ last.record.amountIn = {100}
    /\ last.record.amountOut = {95}
    /\ last.record.tokenIn = LastPath[1]
    /\ last.record.tokenOut = LastPath[2]

(***************************************************************************)
(* Nested balance diffing of the fee-on-transfer swaps.                    *)
(***************************************************************************)
\* the latest call is a claimed fee-on-transfer swap with a token output whose
\* children hold balanceOf static calls
LastFeeSwapWithBalanceQueries ==
    /\ LastSwapRecord
    /\ LastFn.fee
    /\ LastFn.output = "tokens"
    /\ LastNode.children.present
    /\ BalanceOfCallsOf(LastNode) # <<>>

\* C11: for a claimed fee-on-transfer swap with a token output and nested
\* balanceOf static calls, amountOut is the balance the last static call
\* returns minus the balance the first returns
C11_BalanceDifference ==
    LastFeeSwapWithBalanceQueries =>
        last.record.amountOut =
            {WordOf(BalanceOfCallsOf(LastNode)[Len(BalanceOfCallsOf(LastNode))])
               - WordOf(BalanceOfCallsOf(LastNode)[1])}

(***************************************************************************)
(* Pair-address derivation and token ordering.                             *)
(***************************************************************************)
\* C12: the pair address computed for tokens A, B equals the one computed for
\* B, A, for every factory, init-code hash and pair of tokens
C12_OrderIndependent ==
    pairing.forward # {} => pairing.forward = pairing.reverse

\* the address was derived, in both orders, for two different tokens of which
\* the first is the greater string
C12_Witness ==
    /\ pairing.forward # {}
    /\ pairing.reverse # {}
    /\ pairing.tokenA # pairing.tokenB
    /\ StrLess(pairing.tokenB, pairing.tokenA)
    /\ pairing.forward = pairing.reverse

\* C13: getTokens puts first the address with the smaller unsigned numeric
\* value, for every pair of different address strings, mixed-case ones included
C13_NumericTokenOrder ==
    (pairing.sorted # <<>> /\ pairing.tokenA # pairing.tokenB) =>
        HexValue(pairing.sorted[1]) < HexValue(pairing.sorted[2])

(***************************************************************************)
(* Token metadata requests.                                                *)
(***************************************************************************)
\* the token and pool addresses a record references
ReferencedAddresses(record) ==
    IF record.type = "uniswap-v2-router-swap"
    THEN {record.tokenIn, record.tokenOut}
    ELSE {record.tokenA, record.tokenB} \cup
         (IF "pool" \in DOMAIN record THEN {record.pool} ELSE {Undefined})

\* C14: when a decoder returns a record, metadata has been requested for every
\* token and pool address the record references, and every requested value is
\* an address
C14_MetadataRequested ==
    last.outcome = "record" =>
        /\ ReferencedAddresses(last.record) \subseteq requested
        /\ Undefined \notin ReferencedAddresses(last.record)
        /\ Undefined \notin requested

(***************************************************************************)
(* The add-liquidity record.                                               *)
(***************************************************************************)
\* the mint calls among the children of a node
MintCallsOf(node) ==
    SelectSeq(node.children.list,
        LAMBDA v : v.type = "call" /\ hasSelector(v.calldata, "mint"))

\* the latest call is a claimed add-liquidity call with return data and a
\* nested mint call
LastAddLiquidityWithReturn ==
    /\ last.dec = "addLiquidity"
    /\ last.outcome = "record"
    /\ LastNode.returndata.present
    /\ LastNode.children.present
    /\ MintCallsOf(LastNode) # <<>>

\* C15: the record of a claimed addLiquidity or addLiquidityETH call with
\* return data carries the pool (the destination of the nested mint call), the
\* two tokens (the native placeholder second for the ETH variant), and
\* amountA, amountB and liquidity as returned
C15_AddLiquidityRecord ==
    LastAddLiquidityWithReturn =>
        /\ {"pool", "amountA", "amountB", "liquidity"} \subseteq DOMAIN last.record
        /\ last.record.pool = MintCallsOf(LastNode)[1].to
        /\ last.record.tokenA =
              (IF LastNode.calldata.sel = "addLiquidityETH"
               THEN LastNode.calldata.args.token ELSE LastNode.calldata.args.tokenA)
        /\ last.record.tokenB =
              (IF LastNode.calldata.sel = "addLiquidityETH"
               THEN NativePlaceholder ELSE LastNode.calldata.args.tokenB)
        /\ last.record.amountA = LastNode.returndata.words[1]
        /\ last.record.amountB = LastNode.returndata.words[2]
        /\ last.record.liquidity = LastNode.returndata.words[3]

(***************************************************************************)
(* Where a decode call marks paths.  The path of a child is the path of    *)
(* its parent with the child's index appended: a node is in the subtree of *)
(* another when the other's path is a prefix of its path.                  *)
(***************************************************************************)
IsPrefix(p, q) == Len(p) <= Len(q) /\ SubSeq(q, 1, Len(p)) = p

\* the paths the latest call added to the consumed set
NewlyConsumed == consumed \ last.preConsumed

\* C16: every path a decode call that returns a record adds to the consumed
\* set is the path of the claimed node or of one of its descendants
C16_MarksOwnSubtreeOnly ==
    last.outcome = "record" => \A p \in NewlyConsumed : IsPrefix(last.path, p)

\* a claimed node that has a parent and siblings, and whose call marked the
\* node, a child and a grandchild
C16_Witness ==
    /\ last.outcome = "record"
    /\ Len(last.path) = 2
    /\ Len(LastNode.children.list) > 0
    /\ \E n \in NodesOf(trace) : Len(n.path) = 2 /\ n.path # last.path
    /\ last.path \in NewlyConsumed
    /\ \E p \in NewlyConsumed : Len(p) = 3
    /\ \E p \in NewlyConsumed : Len(p) = 4
    /\ \A p \in NewlyConsumed : IsPrefix(last.path, p)

C18_NothingReturnedNothingChanged ==
    (Called /\ last.outcome = "null") =>
        /\ consumed = last.preConsumed
        /\ requested = last.preRequested

\* a decoder returned nothing for an unconsumed call whose selector is none of
\* its table, the state holding consumed paths and requested addresses
C18_Witness ==
    /\ Called
    /\ last.outcome = "null"
    /\ last.path \notin last.preConsumed
    /\ LastNode.type = "call"
    /\ LastNode.calldata.sel \notin TableNames(last.dec)
    /\ last.preConsumed # {}
    /\ last.preRequested # {}
    /\ consumed = last.preConsumed
    /\ requested = last.preRequested

====
